---- MODULE Spec2Model ----
(***************************************************************************)
(* Resume-Analyzer: the text normalizer (preprocessing/text_cleaning.py),  *)
(* the similarity scorer (model/similarity_model.py) and the analyzer page *)
(* that feeds one into the other (app.py).                                 *)
(*                                                                         *)
(* A Python str is a sequence of characters; a character is a one-element  *)
(* TLA+ string ("a", "+", " "), or the name of its code point ("U+00C9")   *)
(* for the characters outside ASCII.  Other Python values are records      *)
(* tagged by their type.                                                   *)
(***************************************************************************)
EXTENDS Integers, Sequences, FiniteSets, TLC

VARIABLES
    pc,           \* where the run stands
    text,         \* clean_text's argument
    cleaned,      \* clean_text(text)
    recleaned,    \* clean_text(cleaned)
    user_skill,   \* calculate_similarity's first argument
    job_skills,   \* calculate_similarity's second argument, a list of str
    similarity,   \* what calculate_similarity returned (or that it raised)
    csv,          \* data/jobs.csv as pd.read_csv finds it
    jobs,         \* the jobs table after the load
    selected_category,  \* the sidebar's "Job Category"
    widgets,      \* the analyzer page's inputs
    view          \* what the page shows

cleanVars == <<text, cleaned, recleaned>>
scoreVars == <<user_skill, job_skills, similarity>>
appVars == <<csv, jobs, selected_category, widgets, view>>
vars == <<pc, cleanVars, scoreVars, appVars>>

\* ------------------------------------------------------------------ bounds

\* Longest raw text handed to clean_text.
MaxRawLen == 3

\* Most entries of a corpus handed to calculate_similarity on its own.
MaxCorpus == 2

\* Most tokens in the query and the corpus entries of one call, altogether.
MaxTokens == 4

\* Most rows of data/jobs.csv.
MaxJobs == 3

\* ------------------------------------------------------- characters, str

LowerSeq ==
    <<"a", "b", "c", "d", "e", "f", "g", "h", "i", "j", "k", "l", "m",
      "n", "o", "p", "q", "r", "s", "t", "u", "v", "w", "x", "y", "z">>

UpperSeq ==
    <<"A", "B", "C", "D", "E", "F", "G", "H", "I", "J", "K", "L", "M",
      "N", "O", "P", "Q", "R", "S", "T", "U", "V", "W", "X", "Y", "Z">>

\* The class [a-z] of the first regular expression.
AsciiLower == {LowerSeq[i] : i \in 1..26}

AsciiUpper == {UpperSeq[i] : i \in 1..26}

Digits == {"0", "1", "2", "3", "4", "5", "6", "7", "8", "9"}

\* The class \s of the second regular expression, and what str.strip() strips:
\* space, tab, line feed, no-break space.
Whitespace == {" ", "TAB", "LF", "U+00A0"}

\* str.lower() on one character.  Three code points outside ASCII show what
\* lower() can do: U+00C9 (E acute) lowers to U+00E9, which is no ASCII
\* letter; U+212A (Kelvin sign) lowers to the ASCII letter k; U+0130 (capital
\* I with dot) lowers to TWO characters, i and the combining dot U+0307.
LowerChar(c) ==
    IF c \in AsciiUpper
    THEN <<LowerSeq[CHOOSE i \in 1..26 : UpperSeq[i] = c]>>
    ELSE IF c = "U+00C9" THEN <<"U+00E9">>
    ELSE IF c = "U+212A" THEN <<"k">>
    ELSE IF c = "U+0130" THEN <<"i", "U+0307">>
    ELSE <<c>>

\* text.lower()
RECURSIVE Lower(_)
Lower(s) ==
    IF s = <<>> THEN <<>> ELSE LowerChar(Head(s)) \o Lower(Tail(s))

\* re.sub(r"[^a-z]+", " ", text): every maximal run of characters that are not
\* a-z becomes one space.
RECURSIVE SubNonLetters(_)
SubNonLetters(s) ==
    IF s = <<>> THEN <<>>
    ELSE IF Head(s) \in AsciiLower THEN <<Head(s)>> \o SubNonLetters(Tail(s))
    ELSE IF Len(s) > 1 /\ s[2] \notin AsciiLower THEN SubNonLetters(Tail(s))
    ELSE <<" ">> \o SubNonLetters(Tail(s))

\* re.sub(r"\s+", " ", text): every maximal run of whitespace becomes one space.
RECURSIVE SubWhitespace(_)
SubWhitespace(s) ==
    IF s = <<>> THEN <<>>
    ELSE IF Head(s) \notin Whitespace THEN <<Head(s)>> \o SubWhitespace(Tail(s))
    ELSE IF Len(s) > 1 /\ s[2] \in Whitespace THEN SubWhitespace(Tail(s))
    ELSE <<" ">> \o SubWhitespace(Tail(s))

RECURSIVE LStrip(_)
LStrip(s) ==
    IF s # <<>> /\ Head(s) \in Whitespace THEN LStrip(Tail(s)) ELSE s

RECURSIVE RStrip(_)
RStrip(s) ==
    IF s # <<>> /\ s[Len(s)] \in Whitespace
    THEN RStrip(SubSeq(s, 1, Len(s) - 1))
    ELSE s

\* A plausible slip: lstrip() where strip() was meant.
StripLeftOnly(s) == LStrip(s)

\* str.strip()
Strip(s) == RStrip(LStrip(s))

\* ---------------------------------------------------------- Python values

PyNone == [t |-> "NoneType"]
PyBool(b) == [t |-> "bool", b |-> b]
PyInt(n) == [t |-> "int", n |-> n]
\* A float is kept as its repr and whether it is zero (nan is not zero).
PyFloat(r, z) == [t |-> "float", repr |-> r, zero |-> z]
PyStr(s) == [t |-> "str", s |-> s]
\* A list of str values.
PyList(l) == [t |-> "list", items |-> l]

NaN == PyFloat(<<"n", "a", "n">>, FALSE)

\* bool(v): the truth test of "text or ''".
Truthy(v) ==
    CASE v.t = "NoneType" -> FALSE
      [] v.t = "bool" -> v.b
      [] v.t = "int" -> v.n # 0
      [] v.t = "float" -> ~v.zero
      [] v.t = "str" -> v.s # <<>>
      [] v.t = "list" -> v.items # <<>>

DigitSeq == <<"0", "1", "2", "3", "4", "5", "6", "7", "8", "9">>

RECURSIVE NatToStr(_)
NatToStr(n) ==
    IF n < 10 THEN <<DigitSeq[n + 1]>>
    ELSE NatToStr(n \div 10) \o <<DigitSeq[(n % 10) + 1]>>

\* repr of a list of str: ['ab', 'c']
RECURSIVE ListItemsRepr(_)
ListItemsRepr(l) ==
    IF l = <<>> THEN <<>>
    ELSE <<"'">> \o Head(l) \o <<"'">>
         \o (IF Len(l) > 1 THEN <<",", " ">> ELSE <<>>)
         \o ListItemsRepr(Tail(l))

\* str(v)
Str(v) ==
    CASE v.t = "NoneType" -> <<"N", "o", "n", "e">>
      [] v.t = "bool" ->
            IF v.b THEN <<"T", "r", "u", "e">> ELSE <<"F", "a", "l", "s", "e">>
      [] v.t = "int" ->
            IF v.n < 0 THEN <<"-">> \o NatToStr(-v.n) ELSE NatToStr(v.n)
      [] v.t = "float" -> v.repr
      [] v.t = "str" -> v.s
      [] v.t = "list" -> <<"[">> \o ListItemsRepr(v.items) \o <<"]">>

\* ------------------------------------------------------------- clean_text

\* A plausible slip: the trim done before the substitutions instead of after.
clean_text_strip_first(v) ==
    LET s0 == IF v.t # "str"
              THEN Str(IF Truthy(v) THEN v ELSE PyStr(<<>>))
              ELSE v.s
    IN  SubWhitespace(SubNonLetters(Strip(Lower(s0))))

\* clean_text(text): the str it returns.
clean_text(v) ==
    LET s0 == IF v.t # "str"
              THEN Str(IF Truthy(v) THEN v ELSE PyStr(<<>>))
              ELSE v.s
        s1 == Lower(s0)
        s2 == SubNonLetters(s1)
    IN  Strip(SubWhitespace(s2))

\* --------------------------------------------------- TfidfVectorizer

\* The class \w of the vectorizer's token pattern: letters, digits, underscore.
WordChars ==
    AsciiLower \cup AsciiUpper \cup Digits \cup {"_", "U+00C9", "U+00E9", "U+212A", "U+0130"}

\* The maximal runs of s made of characters c with (c \in S) = inside, in order.
RECURSIVE RunsAcc(_, _, _, _)
RunsAcc(s, S, inside, cur) ==
    LET done == IF cur = <<>> THEN <<>> ELSE <<cur>>
    IN  IF s = <<>> THEN done
        ELSE IF (Head(s) \in S) = inside
        THEN RunsAcc(Tail(s), S, inside, Append(cur, Head(s)))
        ELSE done \o RunsAcc(Tail(s), S, inside, <<>>)

\* str.split(): the runs between whitespace.
Split(s) == RunsAcc(s, Whitespace, FALSE, <<>>)

\* TfidfVectorizer()'s analyzer with its defaults: lowercase=True and
\* token_pattern r"(?u)\b\w\w+\b", which keeps the runs of word characters that
\* are at least two characters long.  A one-letter token is dropped.
Tokenize(s) ==
    SelectSeq(RunsAcc(Lower(s), WordChars, TRUE, <<>>), LAMBDA r : Len(r) >= 2)

Range(f) == {f[i] : i \in DOMAIN f}

\* Term frequency: how often token t occurs in the token list.
Count(toks, t) == Cardinality({i \in DOMAIN toks : toks[i] = t})

\* 10 * ln(k), rounded, for k = 1..12: the scorer's floating point arithmetic
\* is kept in fixed point with one decimal.
LnTimes10 == <<0, 7, 11, 14, 16, 18, 19, 21, 22, 23, 24, 25>>

\* smooth_idf=True: idf(t) = ln((1 + n) / (1 + df(t))) + 1, times 10.
Idf(n, df) == 10 + LnTimes10[1 + n] - LnTimes10[1 + df]

\* A plausible slip: add-one smoothing of the term frequency, which gives every
\* document a weight on every term of the vocabulary.
TermWeightSmoothed(toks, t, n, df) == (Count(toks, t) + 1) * Idf(n, df)

\* One cell of the document-term matrix: tf * idf.
TermWeight(toks, t, n, df) == Count(toks, t) * Idf(n, df)

\* vectorizer.fit_transform(docs): the document-term matrix, one row per
\* document, or the ValueError "empty vocabulary" when no document has a token.
\* The rows are left unnormalised: norm="l2" scales a row by a positive factor,
\* and cosine_similarity normalises its arguments again.
fit_transform(docs) ==
    LET n == Len(docs)
        toks == [i \in 1..n |-> Tokenize(docs[i])]
        vocabulary == UNION {Range(toks[i]) : i \in 1..n}
        df(t) == Cardinality({i \in 1..n : t \in Range(toks[i])})
    IN  IF vocabulary = {}
        THEN [error |-> TRUE, rows |-> <<>>]
        ELSE [error |-> FALSE,
              rows |-> [i \in 1..n |->
                          [t \in vocabulary |-> TermWeight(toks[i], t, n, df(t))]]]

\* ---------------------------------------------------- cosine_similarity

RECURSIVE SumOver(_, _)
SumOver(f, S) ==
    IF S = {} THEN 0
    ELSE LET x == CHOOSE y \in S : TRUE IN f[x] + SumOver(f, S \ {x})

\* The dot product of two rows over the same vocabulary.
Dot(x, y) == SumOver([t \in DOMAIN x |-> x[t] * y[t]], DOMAIN x)

RECURSIVE GCD(_, _)
GCD(a, b) == IF b = 0 THEN a ELSE GCD(b, a % b)

\* A score s >= 0 is kept exactly, as the fraction s^2 = num / den in lowest
\* terms.
Zero == [num |-> 0, den |-> 1]
One == [num |-> 1, den |-> 1]

Fraction(p, q) == LET g == GCD(p, q) IN [num |-> p \div g, den |-> q \div g]

\* A plausible slip: the dot product divided by the query's norm twice instead
\* of by both norms.
CosineQueryNormOnly(x, y) ==
    LET d == Dot(x, y)
        xx == Dot(x, x)
        yy == Dot(y, y)
    IN  IF xx = 0 \/ yy = 0 THEN Zero ELSE Fraction(d * d, xx * xx)

\* The cosine of two rows: x.y / (|x| |y|); a zero row is left as it is by the
\* normalisation and scores 0.
Cosine(x, y) ==
    LET d == Dot(x, y)
        xx == Dot(x, x)
        yy == Dot(y, y)
    IN  IF xx = 0 \/ yy = 0 THEN Zero ELSE Fraction(d * d, xx * yy)

\* cosine_similarity(X, Y): one row per row of X, one column per row of Y.
cosine_similarity(X, Y) ==
    [i \in 1..Len(X) |-> [j \in 1..Len(Y) |-> Cosine(X[i], Y[j])]]

\* np.zeros(n)
Zeros(n) == [i \in 1..n |-> Zero]

\* --------------------------------------------------- calculate_similarity

\* The body of the try block: the value returned, or raised = TRUE when
\* fit_transform raises.
TryBody(q, corpus) ==
    IF corpus = <<>> THEN [raised |-> FALSE, value |-> <<>>]
    ELSE LET docs == <<q>> \o corpus
             vectors == fit_transform(docs)
         IN  IF vectors.error THEN [raised |-> TRUE, value |-> <<>>]
             ELSE [raised |-> FALSE,
                   value |-> cosine_similarity(
                                 SubSeq(vectors.rows, 1, 1),
                                 SubSeq(vectors.rows, 2, Len(docs)))[1]]

\* A plausible slip: vectors[0:] for vectors[1:], so that the query is scored
\* against itself too.
calculate_similarity_from_zero(q, corpus) ==
    IF corpus = <<>> THEN [raised |-> FALSE, value |-> <<>>]
    ELSE LET docs == <<q>> \o corpus
             vectors == fit_transform(docs)
         IN  IF vectors.error
             THEN [raised |-> FALSE, value |-> Zeros(Len(corpus))]
             ELSE [raised |-> FALSE,
                   value |-> cosine_similarity(
                                 SubSeq(vectors.rows, 1, 1), vectors.rows)[1]]

\* A plausible slip: no except clause, so that the ValueError escapes.
calculate_similarity_no_except(q, corpus) == TryBody(q, corpus)

\* calculate_similarity(user_skill, job_skills), on str arguments (str(s) is s).
calculate_similarity(q, corpus) ==
    LET r == TryBody(q, corpus)
    IN  IF r.raised
        THEN [raised |-> FALSE, value |-> Zeros(Len(corpus))]
        ELSE r

\* Before any call: no result yet.
NoResult == [raised |-> FALSE, value |-> <<"<unset>">>]

\* ------------------------------------------------- app.py: the job table

\* A program constant: the slider's lowest value once there are that many jobs.
SliderMin == 3

\* A program constant: the slider's highest value.
SliderMax == 32

\* jobs["required_skills"].fillna(""): a missing cell (NaN) becomes "".
FillNa(cell) == IF cell = NaN THEN PyStr(<<>>) ELSE cell

\* A plausible slip: the column cleaned without fillna(""), so that a missing
\* cell reaches clean_text as the float nan.
CleanCellNoFill(cell) == clean_text(cell)

\* One cell of jobs["required_skills"].fillna("").apply(clean_text)
CleanCell(cell) == clean_text(FillNa(cell))

\* The table after the load: each row keeps its place in the file (row), and
\* its required_skills is now a canonical str.
LoadJobs(rows) ==
    [i \in 1..Len(rows) |->
        [row |-> i,
         job_title |-> rows[i].job_title,
         category |-> rows[i].category,
         required_skills |-> CleanCell(rows[i].required_skills)]]

\* The options of the "Job Category" selectbox.
CategoryOptions(file) ==
    IF "category" \in file.columns
    THEN {"All"} \cup {file.rows[i].category : i \in 1..Len(file.rows)}
    ELSE {"All"}

\* jobs if selected_category == "All" else jobs[jobs["category"] == it],
\* with reset_index(drop=True): the rows are numbered again.
LocalJobs(table, category) ==
    LET kept == IF category = "All" THEN table
                ELSE SelectSeq(table, LAMBDA r : r.category = category)
    IN  [i \in 1..Len(kept) |-> [kept[i] EXCEPT !.row = i]]

\* The values the "Top matches to show" slider can hold.
TopNChoices(total_jobs) ==
    IF total_jobs > 0
    THEN LET slider_min == IF total_jobs >= SliderMin THEN SliderMin ELSE 1
             slider_max == IF total_jobs >= SliderMax THEN SliderMax ELSE total_jobs
         IN  IF slider_max > slider_min THEN slider_min..slider_max ELSE {slider_max}
    ELSE {1}

\* ------------------------------------------- app.py: the match percentage

\* floor(k * 10^digits * p / q) by long division, for 0 <= p <= q: v and r are
\* the quotient and the remainder so far.
RECURSIVE LongDivision(_, _, _, _)
LongDivision(v, r, q, digits) ==
    IF digits = 0 THEN [v |-> v, r |-> r]
    ELSE LongDivision(10 * v + ((10 * r) \div q), (10 * r) % q, q, digits - 1)

\* The largest k in lo..hi with k * k <= n.
RECURSIVE SqrtSearch(_, _, _)
SqrtSearch(n, lo, hi) ==
    IF lo = hi THEN lo
    ELSE LET mid == (lo + hi + 1) \div 2
         IN  IF mid * mid <= n THEN SqrtSearch(n, mid, hi)
             ELSE SqrtSearch(n, lo, mid - 1)

\* (score * 100).round(2), in hundredths of a percent: 10^4 * sqrt(num / den)
\* rounded to the nearest integer, a tie going to the even one as numpy does.
Pct(score) ==
    LET d == LongDivision((4 * score.num) \div score.den,
                          (4 * score.num) % score.den, score.den, 8)
        m == SqrtSearch(d.v, 0, 20000)
        tie == d.r = 0 /\ m * m = d.v /\ m % 2 = 1
    IN  IF tie /\ ((m - 1) \div 2) % 2 = 0 THEN (m - 1) \div 2
        ELSE (m + 1) \div 2

\* ------------------------------------------------ app.py: analyzer_page

\* The orders sort_values(ascending=False) may leave the rows in: the default
\* sort is not stable, so rows with equal percentages may come in any order.
SortedOrders(table) ==
    {p \in Permutations(1..Len(table)) :
        \A i, j \in 1..Len(table) : i < j => table[p[i]].pct >= table[p[j]].pct}

\* The integers of a list in descending order.
RECURSIVE SortDesc(_)
SortDesc(s) ==
    IF s = <<>> THEN <<>>
    ELSE LET i == CHOOSE k \in 1..Len(s) : \A l \in 1..Len(s) : s[k] >= s[l]
         IN  <<s[i]>> \o SortDesc(SubSeq(s, 1, i - 1) \o SubSeq(s, i + 1, Len(s)))

\* Series.nlargest(n).min()
NLargestMin(values, n) == SortDesc(values)[n]

\* A plausible slip: head(top_n) for the cutoff, which drops the jobs tied
\* with the last one kept.
TopPriorityHead(jobs_nonzero, top_n) ==
    LET n == IF top_n <= Len(jobs_nonzero) THEN top_n ELSE Len(jobs_nonzero)
    IN  SubSeq(jobs_nonzero, 1, n)

\* display_mode == "Top Priority": the rows at or above the top_n-th largest
\* percentage.
TopPriority(jobs_nonzero, top_n) ==
    LET n == IF top_n <= Len(jobs_nonzero) THEN top_n ELSE Len(jobs_nonzero)
    IN  IF n <= 0 THEN <<>>
        ELSE LET cutoff == NLargestMin([i \in 1..Len(jobs_nonzero) |->
                                            jobs_nonzero[i].pct], n)
             IN  SelectSeq(jobs_nonzero, LAMBDA r : r.pct >= cutoff)

\* display_mode == "Minimum Percentage": the rows at or above min_pct percent.
MinimumPercentage(jobs_nonzero, min_pct) ==
    SelectSeq(jobs_nonzero, LAMBDA r : r.pct >= 100 * min_pct)

\* One line of the compact list: the coloured indicator and the shared and
\* missing skills of a displayed job.
MatchLine(r, user_skills) ==
    LET job_set == Range(Split(r.required_skills))
        user_set == Range(Split(user_skills))
    IN  [row |-> r.row,
         icon |-> IF r.pct >= 7500 THEN "green"
                  ELSE IF r.pct >= 4000 THEN "yellow" ELSE "red",
         shared |-> job_set \cap user_set,
         missing |-> job_set \ user_set]

\* What the page shows once the scores are attached and the rows sorted.
ShowResults(jobs_sorted, w, user_skills) ==
    LET jobs_nonzero == SelectSeq(jobs_sorted, LAMBDA r : r.pct > 0)
    IN  IF jobs_nonzero = <<>>
        THEN [status |-> "no_match", jobs_sorted |-> jobs_sorted,
              top_matches |-> <<>>, lines |-> <<>>]
        ELSE LET top_matches ==
                    IF w.display_mode = "Top Priority"
                    THEN TopPriority(jobs_nonzero, w.top_n)
                    ELSE MinimumPercentage(jobs_nonzero, w.min_pct)
             IN  [status |-> "results", jobs_sorted |-> jobs_sorted,
                  top_matches |-> top_matches,
                  lines |-> [i \in 1..Len(top_matches) |->
                                MatchLine(top_matches[i], user_skills)]]

\* ------------------------------------------------------- before any run

NoFile == [readable |-> FALSE, columns |-> {}, rows |-> <<>>]

NoWidgets ==
    [name |-> "", skills |-> <<>>, top_n |-> 1,
     display_mode |-> "Top Priority", min_pct |-> 0, clicked |-> FALSE]

NoView == [status |-> "none"]

\* The app is not running: the normalizer or the scorer is called on its own.
AppIdle ==
    /\ csv = NoFile
    /\ jobs = <<>>
    /\ selected_category = "All"
    /\ widgets = NoWidgets
    /\ view = NoView

\* ------------------------------------------- the normalizer on its own

\* The characters raw text is drawn from: letters of both cases, separators,
\* and the three code points of LowerChar.
RawChars == {"a", "b", "A", " ", "+", "U+00C9", "U+212A", "U+0130"}

RECURSIVE StringsUpTo(_, _)
StringsUpTo(chars, n) ==
    IF n = 0 THEN {<<>>}
    ELSE LET shorter == StringsUpTo(chars, n - 1)
         IN  shorter \cup {<<c>> \o s : c \in chars, s \in {x \in shorter : Len(x) = n - 1}}

\* Values that are not str: None, booleans, integers, floats (0.0, nan, 1e+20),
\* lists.
NonTextValues ==
    { PyNone, PyBool(TRUE), PyBool(FALSE), PyInt(0), PyInt(5), PyInt(-12),
      PyFloat(<<"0", ".", "0">>, TRUE), NaN,
      PyFloat(<<"1", "e", "+", "2", "0">>, FALSE),
      PyList(<<>>), PyList(<<<<"a", "b">>, <<"C">>>>) }

RawValues ==
    {PyStr(s) : s \in StringsUpTo(RawChars, MaxRawLen)} \cup NonTextValues

NoStr == <<"<unset>">>

InitClean ==
    /\ pc = "call"
    /\ text \in RawValues
    /\ cleaned = NoStr
    /\ recleaned = NoStr
    /\ user_skill = <<>>
    /\ job_skills = <<>>
    /\ similarity = NoResult
    /\ AppIdle

\* cleaned = clean_text(text)
CleanCall ==
    /\ pc = "call"
    /\ cleaned' = clean_text(text)
    /\ pc' = "cleaned"
    /\ UNCHANGED <<text, recleaned, scoreVars, appVars>>

\* recleaned = clean_text(cleaned)
CleanAgain ==
    /\ pc = "cleaned"
    /\ recleaned' = clean_text(PyStr(cleaned))
    /\ pc' = "recleaned"
    /\ UNCHANGED <<text, cleaned, scoreVars, appVars>>

NextClean == CleanCall \/ CleanAgain

SpecClean == InitClean /\ [][NextClean]_vars

\* ---------------------------------------------- the scorer on its own

\* The tokens the query and the corpus entries are made of: a one-letter
\* skill and two longer ones.
ScoreTokens == {<<"c">>, <<"p", "y">>, <<"s", "q", "l">>}

\* The canonical token strings of exactly k tokens.
RECURSIVE DocsWith(_)
DocsWith(k) ==
    IF k = 0 THEN {<<>>}
    ELSE {IF d = <<>> THEN t ELSE d \o <<" ">> \o t :
            d \in DocsWith(k - 1), t \in ScoreTokens}

\* The lists of exactly k canonical token strings holding at most t tokens
\* altogether.
RECURSIVE DocLists(_, _)
DocLists(k, t) ==
    IF k = 0 THEN {<<>>}
    ELSE UNION {{<<d>> \o r : d \in DocsWith(j), r \in DocLists(k - 1, t - j)} :
                 j \in 0..t}

InitScore ==
    /\ pc = "call"
    /\ \E k \in 0..MaxCorpus :
         \E ds \in DocLists(k + 1, MaxTokens) :
            /\ user_skill = Head(ds)
            /\ job_skills = Tail(ds)
    /\ similarity = NoResult
    /\ text = PyNone
    /\ cleaned = NoStr
    /\ recleaned = NoStr
    /\ AppIdle

\* similarity = calculate_similarity(user_skill, job_skills)
ScoreCall ==
    /\ pc = "call"
    /\ similarity' = calculate_similarity(user_skill, job_skills)
    /\ pc' = "scored"
    /\ UNCHANGED <<user_skill, job_skills, cleanVars, appVars>>

NextScore == ScoreCall

SpecScore == InitScore /\ [][NextScore]_vars

\* ------------------------------------------------------ one run of app.py

\* Rows data/jobs.csv is made of: punctuation and mixed case, a missing
\* required_skills cell, a one-letter skill beside a longer one.
RowSamples ==
    { [job_title |-> "Data Analyst", category |-> "data",
       required_skills |-> PyStr(<<"P", "y", ",", " ", "S", "Q", "L">>)],
      [job_title |-> "Intern", category |-> "dev",
       required_skills |-> NaN],
      [job_title |-> "Systems", category |-> "dev",
       required_skills |-> PyStr(<<"C", "+", "+", ";", "p", "y">>)] }

RECURSIVE ListsUpTo(_, _)
ListsUpTo(S, n) ==
    IF n = 0 THEN {<<>>}
    ELSE LET shorter == ListsUpTo(S, n - 1)
         IN  shorter \cup {Append(l, x) : l \in {y \in shorter : Len(y) = n - 1}, x \in S}

AllColumns == {"job_title", "category", "required_skills"}

\* The file is missing, lacks the required column, lacks the optional one, or
\* holds up to MaxJobs rows.
CsvFiles ==
    {NoFile}
    \cup {[readable |-> TRUE, columns |-> {"job_title", "category"}, rows |-> <<>>]}
    \cup {[readable |-> TRUE, columns |-> {"job_title", "required_skills"},
           rows |-> l] : l \in ListsUpTo(RowSamples, 1)}
    \cup {[readable |-> TRUE, columns |-> AllColumns, rows |-> l] :
            l \in ListsUpTo(RowSamples, MaxJobs)}

\* What the user types into "Enter your name" and "Enter your skills".
NameSamples == {"", "Ada"}

SkillSamples ==
    { <<>>,
      <<"S", "Q", "L", ",", " ", "p", "y">>,
      <<"C", "+", "+">> }

\* The display mode with its "Minimum match percentage"; the slider exists in
\* the second mode only, and min_pct is None (which counts as 0) in the first.
ModeChoices ==
    {[display_mode |-> "Top Priority", min_pct |-> 0]}
    \cup {[display_mode |-> "Minimum Percentage", min_pct |-> m] : m \in {20, 80}}

\* What is uploaded on the "Upload Resume" page: a .txt file, a .pdf file of
\* pages (a page without text extracts as None), or a .pdf that cannot be read.
UploadSamples ==
    { [kind |-> "txt", raw |-> <<"P", "y", "LF", "S", "Q", "L">>],
      [kind |-> "pdf", parses |-> TRUE,
       pages |-> <<PyStr(<<"P", "y">>), PyNone, PyStr(<<"C", "+", "+">>)>>],
      [kind |-> "pdf", parses |-> FALSE, pages |-> <<>>] }

Init ==
    /\ pc = "start"
    /\ csv \in CsvFiles
    /\ jobs = <<>>
    /\ selected_category = "All"
    /\ widgets = NoWidgets
    /\ view = NoView
    /\ text = PyNone
    /\ cleaned = NoStr
    /\ recleaned = NoStr
    /\ user_skill = <<>>
    /\ job_skills = <<>>
    /\ similarity = NoResult

\* pd.read_csv fails, or the table has no required_skills column: st.error
\* and st.stop().
LoadFailed ==
    /\ pc = "start"
    /\ ~csv.readable \/ "required_skills" \notin csv.columns
    /\ view' = [status |-> "load_error"]
    /\ pc' = "stopped"
    /\ UNCHANGED <<csv, jobs, selected_category, widgets, cleanVars, scoreVars>>

\* The table is read, its required_skills column is cleaned, and the sidebar
\* offers the categories.
LoadData ==
    /\ pc = "start"
    /\ csv.readable
    /\ "required_skills" \in csv.columns
    /\ jobs' = LoadJobs(csv.rows)
    /\ \E c \in CategoryOptions(csv) : selected_category' = c
    /\ pc' = "loaded"
    /\ UNCHANGED <<csv, widgets, view, cleanVars, scoreVars>>

\* analyzer_page()
AnalyzerPage ==
    /\ pc = "loaded"
    /\ \E skills \in SkillSamples :
         LET local_jobs == LocalJobs(jobs, selected_category)
             user_skills == clean_text(PyStr(skills))
             corpus == [i \in 1..Len(local_jobs) |-> local_jobs[i].required_skills]
             scores == calculate_similarity(user_skills, corpus)
             \* jobs_sorted["Match Score (%)"] = (scores * 100).round(2)
             scored == [i \in 1..Len(local_jobs) |->
                          [row |-> local_jobs[i].row,
                           job_title |-> local_jobs[i].job_title,
                           category |-> local_jobs[i].category,
                           required_skills |-> local_jobs[i].required_skills,
                           pct |-> Pct(scores.value[i])]]
         IN  \E name \in NameSamples, top_n \in TopNChoices(Len(local_jobs)),
                mode \in ModeChoices, clicked \in BOOLEAN :
               LET w == [name |-> name, skills |-> skills, top_n |-> top_n,
                         display_mode |-> mode.display_mode,
                         min_pct |-> mode.min_pct, clicked |-> clicked]
               IN  /\ widgets' = w
                   /\ IF ~clicked
                      THEN view' = [status |-> "form"] /\ UNCHANGED scoreVars
                      ELSE IF name = "" \/ skills = <<>>
                      THEN view' = [status |-> "warning"] /\ UNCHANGED scoreVars
                      ELSE /\ user_skill' = user_skills
                           /\ job_skills' = corpus
                           /\ similarity' = scores
                           /\ \E p \in SortedOrders(scored) :
                                 view' = ShowResults(
                                     [i \in 1..Len(scored) |-> scored[p[i]]],
                                     w, user_skills)
    /\ pc' = "done"
    /\ UNCHANGED <<csv, jobs, selected_category, cleanVars>>

\* "\n".join(p.extract_text() or "" for p in reader.pages)
RECURSIVE JoinPages(_)
JoinPages(pages) ==
    IF pages = <<>> THEN <<>>
    ELSE (IF Truthy(Head(pages)) THEN Head(pages).s ELSE <<>>)
         \o (IF Len(pages) > 1 THEN <<"LF">> ELSE <<>>)
         \o JoinPages(Tail(pages))

\* upload_resume_page(): nothing uploaded, a .txt, or a .pdf (with or without
\* PyPDF2 installed).
UploadResumePage ==
    /\ pc = "loaded"
    /\ \/ /\ view' = [status |-> "upload_form"]
          /\ UNCHANGED cleanVars
       \/ \E f \in UploadSamples, has_pypdf2 \in BOOLEAN :
            IF f.kind = "pdf" /\ (~has_pypdf2 \/ ~f.parses)
            THEN /\ view' = [status |-> "upload_error"]
                 /\ UNCHANGED cleanVars
            ELSE LET raw == IF f.kind = "txt" THEN f.raw ELSE JoinPages(f.pages)
                 IN  /\ text' = PyStr(raw)
                     /\ cleaned' = clean_text(PyStr(raw))
                     /\ view' = [status |-> "upload_preview"]
                     /\ UNCHANGED recleaned
    /\ pc' = "done"
    /\ UNCHANGED <<csv, jobs, selected_category, widgets, scoreVars>>

\* about_page()
AboutPage ==
    /\ pc = "loaded"
    /\ view' = [status |-> "about"]
    /\ pc' = "done"
    /\ UNCHANGED <<csv, jobs, selected_category, widgets, cleanVars, scoreVars>>

Next ==
    \/ LoadFailed
    \/ LoadData
    \/ AnalyzerPage
    \/ UploadResumePage
    \/ AboutPage

Spec == Init /\ [][Next]_vars

\* ------------------------------------------------------------------ claims

\* Only a-z and single interior spaces, no leading or trailing space.
Canonical(s) ==
    /\ \A i \in 1..Len(s) : s[i] \in AsciiLower \cup {" "}
    /\ s # <<>> => s[1] # " " /\ s[Len(s)] # " "
    /\ \A i \in 1..(Len(s) - 1) : ~(s[i] = " " /\ s[i + 1] = " ")

\* C1: for every input value (None, empty string, pure punctuation, mixed
\* case, non-ASCII text) clean_text returns a string made only of the letters
\* a-z and single interior spaces, with no leading space, no trailing space and
\* no two adjacent spaces.
C1_CleanIsCanonical ==
    pc \in {"cleaned", "recleaned"} => Canonical(cleaned)

\* C1 witness: mixed case and punctuation went in, two tokens came out.
C1_Witness ==
    /\ pc = "cleaned"
    /\ text = PyStr(<<"A", "+", "b">>)
    /\ cleaned = <<"a", " ", "b">>

\* C8: clean_text(clean_text(x)) = clean_text(x) for every input x.
C8_Idempotent ==
    pc = "recleaned" => recleaned = cleaned

\* C8 witness: a second pass over a result that the first pass changed.
C8_Witness ==
    /\ pc = "recleaned"
    /\ text = PyStr(<<"b", "+", " ">>)
    /\ cleaned = <<"b">>
    /\ recleaned = <<"b">>

\* C5 (as claimed): every input that is None or not a text string is treated
\* as the empty string, and clean_text returns ''.
C5_NonTextGivesEmpty ==
    pc = "cleaned" /\ text.t # "str" => cleaned = <<>>

\* What holds instead: a non-str input that is falsy (None, False, 0, 0.0, [])
\* gives '', and any other non-str input is cleaned as the text str() makes of
\* it.
C5_NonTextIsStringified ==
    pc = "cleaned" /\ text.t # "str" =>
        cleaned = IF Truthy(text) THEN clean_text(PyStr(Str(text))) ELSE <<>>

\* s with the entries at positions i and j exchanged.
Swap(s, i, j) ==
    [k \in 1..Len(s) |-> IF k = i THEN s[j] ELSE IF k = j THEN s[i] ELSE s[k]]

\* C2: calculate_similarity returns exactly one score per corpus entry, the
\* score at position i belonging to corpus entry i (exchanging two entries of
\* the corpus exchanges their two scores and no other, and equal entries get
\* equal scores); an empty corpus gives a result of length 0, without raising.
C2_OneScorePerEntry ==
    pc = "scored" =>
        /\ ~similarity.raised
        /\ Len(similarity.value) = Len(job_skills)
        /\ \A i, j \in 1..Len(job_skills) :
              /\ job_skills[i] = job_skills[j] =>
                    similarity.value[i] = similarity.value[j]
              /\ i < j =>
                    calculate_similarity(user_skill, Swap(job_skills, i, j)).value
                        = Swap(similarity.value, i, j)

\* C2 witness: a corpus of two entries that score differently.
C2_Witness ==
    /\ pc = "scored"
    /\ Len(job_skills) = 2
    /\ similarity.value[1] = One
    /\ similarity.value[2] = Zero

\* C2 witness of the empty corpus.
C2_WitnessEmpty ==
    pc = "scored" /\ job_skills = <<>> /\ similarity.value = <<>>

\* No document of the call has a token the vectorizer keeps.
VectorizationFails ==
    /\ job_skills # <<>>
    /\ fit_transform(<<user_skill>> \o job_skills).error

\* C3: whenever vectorization fails inside calculate_similarity, no exception
\* reaches the caller and the result is all zeros, as long as the corpus.
C3_FallbackZeros ==
    pc = "scored" /\ VectorizationFails =>
        /\ ~similarity.raised
        /\ similarity.value = [i \in 1..Len(job_skills) |-> Zero]

\* C3 witness: the query and both corpus entries are empty strings.
C3_Witness ==
    /\ pc = "scored"
    /\ user_skill = <<>>
    /\ job_skills = <<<<>>, <<>>>>
    /\ similarity.value = <<Zero, Zero>>

\* C4 (as claimed): a corpus entry equal to the query scores 1.0, whatever
\* tokens the query consists of and whatever the other entries are.
C4_SelfSimilarityIsOne ==
    pc = "scored" =>
        \A i \in 1..Len(job_skills) :
            job_skills[i] = user_skill => similarity.value[i] = One

\* C4 on the queries that have a token at all: violated as well, by a query
\* made of one-letter tokens ("c" against the corpus <<"c">>).
C4_SelfSimilarityOfTokens ==
    pc = "scored" /\ user_skill # <<>> =>
        \A i \in 1..Len(job_skills) :
            job_skills[i] = user_skill => similarity.value[i] = One

\* What holds instead: an entry equal to the query scores 1.0 when the query
\* has a token the vectorizer keeps (two characters or more), and 0.0 when it
\* has none.
C4_SelfSimilarityOfKeptTokens ==
    pc = "scored" =>
        \A i \in 1..Len(job_skills) :
            job_skills[i] = user_skill =>
                similarity.value[i] =
                    IF \E t \in Range(Split(user_skill)) : Len(t) >= 2
                    THEN One ELSE Zero

\* The tokens of a canonical token string, as a set.
TokenSet(s) == Range(Split(s))

\* C6: a corpus entry that shares no token with the query scores exactly 0.0;
\* this includes an empty entry scored against a non-empty query.
C6_DisjointIsZero ==
    pc = "scored" =>
        \A i \in 1..Len(job_skills) :
            TokenSet(job_skills[i]) \cap TokenSet(user_skill) = {}
                => similarity.value[i] = Zero

\* C6 witness: the normal path; one entry matches the query, the other has
\* other tokens only.
C6_Witness ==
    /\ pc = "scored"
    /\ user_skill = <<"p", "y">>
    /\ job_skills = <<<<"p", "y">>, <<"s", "q", "l">>>>
    /\ similarity.value = <<One, Zero>>

KeptRows ==
    IF selected_category = "All" THEN csv.rows
    ELSE SelectSeq(csv.rows, LAMBDA r : r.category = selected_category)

\* The scorer was called in this run.
Scored == pc = "done" /\ view.status \in {"results", "no_match"}

\* C9: each string that reaches calculate_similarity has first passed through
\* clean_text: the query is the cleaned skills text, entry i of the corpus is
\* the cleaned required_skills of the i-th job (the empty string when the cell
\* is missing), and all of them are canonical.
C9_ScorerGetsCleanText ==
    Scored =>
        /\ user_skill = clean_text(PyStr(widgets.skills))
        /\ Canonical(user_skill)
        /\ Len(job_skills) = Len(KeptRows)
        /\ \A i \in 1..Len(job_skills) :
              /\ Canonical(job_skills[i])
              /\ job_skills[i] =
                    IF KeptRows[i].required_skills = NaN THEN <<>>
                    ELSE clean_text(KeptRows[i].required_skills)

\* C9 witness: a file with a missing cell and a cell of mixed case and
\* punctuation was scored against typed skills that needed cleaning too.
C9_Witness ==
    /\ Scored
    /\ widgets.skills = <<"S", "Q", "L", ",", " ", "p", "y">>
    /\ user_skill = <<"s", "q", "l", " ", "p", "y">>
    /\ job_skills = <<<<>>, <<"p", "y", " ", "s", "q", "l">>>>

\* The rows of a table, as a set.
Rows(table) == {table[i] : i \in 1..Len(table)}

\* C10: in "Top Priority" mode with slider value N the displayed matches are
\* exactly the jobs whose percentage is greater than 0 and at least the N-th
\* largest nonzero percentage (N capped at the number of nonzero jobs): no job
\* at 0% is displayed, every job tied with the N-th best is, at least
\* min(N, number of nonzero jobs) jobs are displayed, in descending order.
C10_TopPriorityShown ==
    pc = "done" /\ view.status = "results"
        /\ widgets.display_mode = "Top Priority" =>
        LET all == Rows(view.jobs_sorted)
            nonzero == {r \in all : r.pct > 0}
            n == IF widgets.top_n <= Cardinality(nonzero)
                 THEN widgets.top_n ELSE Cardinality(nonzero)
            shown == view.top_matches
        IN  /\ \A r \in all : r.pct = Pct(similarity.value[r.row])
            /\ Cardinality(all) = Len(job_skills)
            /\ \E c \in {r.pct : r \in nonzero} :
                  /\ Cardinality({r \in nonzero : r.pct > c}) < n
                  /\ Cardinality({r \in nonzero : r.pct >= c}) >= n
                  /\ Rows(shown) = {r \in nonzero : r.pct >= c}
            /\ Cardinality(Rows(shown)) = Len(shown)
            /\ Len(shown) >= n
            /\ \A i \in 1..(Len(shown) - 1) : shown[i].pct >= shown[i + 1].pct

\* C10 witness: two jobs tied for first place are both displayed with N = 1.
C10_WitnessTie ==
    /\ pc = "done" /\ view.status = "results"
    /\ widgets.display_mode = "Top Priority"
    /\ widgets.top_n = 1
    /\ Len(view.top_matches) = 2

\* C10 witness: N cuts the list; a job with a lower nonzero percentage and a
\* job at 0% are left out.
C10_Witness ==
    /\ pc = "done" /\ view.status = "results"
    /\ widgets.display_mode = "Top Priority"
    /\ widgets.top_n = 1
    /\ Len(view.top_matches) = 1
    /\ \E r \in Rows(view.jobs_sorted) :
          r.pct > 0 /\ r.pct < view.top_matches[1].pct

====
